---- MODULE Spec2Model ----
(***************************************************************************)
(* split-iter: an iterator is split into a left handle (items whose        *)
(* predicate is false) and a right handle (items whose predicate is true). *)
(* Both handles share one SharedSplitState: the inner iterator, the        *)
(* predicate, a cache of skipped items and the side the cache is for.      *)
(***************************************************************************)
EXTENDS Integers, Sequences, FiniteSets, Bags, TLC

\* Longest source sequence given to split.
MaxLen == 4
\* Longest source sequence when Split::next is followed step by step.
MaxLenSteps == 3
\* Items are the integers 1..MaxItem; a source may repeat an item.
MaxItem == 3

Items == 1..MaxItem

\* All sequences over S of length at most n.
SeqUpTo(S, n) == UNION {[1..k -> S] : k \in 0..n}

\* Option<Item>: None is the empty tuple, Some(x) the one-element tuple.
None == <<>>
Some(x) == <<x>>

\* The predicate is an FnMut closure: `answer` is what it returns now for each
\* item, `flips` says whether a call changes its captured state (every later
\* answer is then negated: a predicate that counts its calls), and `panics`
\* holds the items on which a call panics instead of returning.
Closure(answer, flips, panics) ==
    [answer |-> answer, flips |-> flips, panics |-> panics]

\* The closures that neither keep state nor panic.
StatelessPredicates == {Closure(a, FALSE, {}) : a \in [Items -> BOOLEAN]}

\* The closures that do not panic: pure ones and ones that keep state.
StatefulPredicates == {Closure(a, f, {}) : a \in [Items -> BOOLEAN], f \in BOOLEAN}

\* The pure closures that panic on one item.
PanickingPredicates == {Closure(a, FALSE, {x}) : a \in [Items -> BOOLEAN], x \in Items}

\* The two handles' side tags.
Left == FALSE
Right == TRUE

VARIABLES
    handles,    \* the Split handles that exist: none before split, both after
    shared,     \* the SharedSplitState both handles point to
    source,     \* history: the sequence the iterator given to split yields
    predicate0, \* history: the predicate as it was given to split
    out,        \* history: out[side] = the items handle `side` has returned
    called,     \* history: called[side] = handle `side` has been asked for an item
    done,       \* history: done[side] = handle `side` has returned None
    exhausted,  \* history: the inner iterator has returned None
    pulled,     \* history: the items the inner iterator has yielded
    evaluated,  \* history: the items the predicate has been invoked on
    answers,    \* history: what the predicate returned, call by call
    last,       \* the most recent call of Split::next and what it did
    borrowed,   \* the RefCell around the shared state is mutably borrowed
    frame,      \* the call of SharedSplitState::next in progress: <<>> or <<f>>
    twin        \* the same calls made on a state whose marker started as true

vars == <<handles, shared, source, predicate0, out, called, done, exhausted,
          pulled, evaluated, answers, last, borrowed, frame, twin>>

----------------------------------------------------------------------------
(* SharedSplitState *)

\* A new that pulls the first item ahead of the first request.
NewEager(iter, predicate) ==
    [iter |-> IF iter = <<>> THEN iter ELSE Tail(iter),
     predicate |-> predicate,
     cache |-> IF iter = <<>> THEN <<>> ELSE <<Head(iter)>>,
     is_right_cached |-> IF iter = <<>> THEN FALSE ELSE predicate.answer[Head(iter)]]

\* SharedSplitState::new, had it set is_right_cached to true.
NewRightCached(iter, predicate) ==
    [iter |-> iter,
     predicate |-> predicate,
     cache |-> <<>>,
     is_right_cached |-> TRUE]

\* SharedSplitState::new
New(iter, predicate) ==
    [iter |-> iter,
     predicate |-> predicate,
     cache |-> <<>>,
     is_right_cached |-> FALSE]

\* self.iter.next() of a source that yields a finite sequence and then None.
IterNext(iter) ==
    IF iter = <<>>
    THEN [item |-> None, iter |-> iter]
    ELSE [item |-> Some(Head(iter)), iter |-> Tail(iter)]

\* A pop at the wrong end of the cache.
PopBack(cache) ==
    IF cache = <<>>
    THEN [item |-> None, cache |-> cache]
    ELSE [item |-> Some(cache[Len(cache)]), cache |-> SubSeq(cache, 1, Len(cache) - 1)]

\* self.cache.pop_front()
PopFront(cache) ==
    IF cache = <<>>
    THEN [item |-> None, cache |-> cache]
    ELSE [item |-> Some(Head(cache)), cache |-> Tail(cache)]

\* A cache that is never consulted.
UseCacheNever(is_right, is_right_cached) == FALSE

\* is_right == self.is_right_cached
UseCache(is_right, is_right_cached) == is_right = is_right_cached

\* A comparison with the wrong polarity.
MatchesNot(predicate, next, is_right) == predicate.answer[next] # is_right

\* (self.predicate)(&next) == is_right
Matches(predicate, next, is_right) == predicate.answer[next] = is_right

\* Whether the call (self.predicate)(&next) panics.
Panics(predicate, next) == next \in predicate.panics

\* The closure after the call (self.predicate)(&next) has returned.
Invoked(predicate, next) ==
    IF predicate.flips
    THEN [predicate EXCEPT !.answer = [x \in Items |-> ~predicate.answer[x]]]
    ELSE predicate

\* Skipped items pushed at the front.
FillCacheFront(self, next, is_right) ==
    [self EXCEPT !.is_right_cached = ~is_right, !.cache = <<next>> \o @]

\* Skipped items thrown away.
FillCacheDrop(self, next, is_right) ==
    [self EXCEPT !.is_right_cached = ~is_right]

\* The marker left as it was.
FillCacheNoMarker(self, next, is_right) ==
    [self EXCEPT !.cache = Append(@, next)]

\* The marker set to the requesting side.
FillCacheSameSide(self, next, is_right) ==
    [self EXCEPT !.is_right_cached = is_right, !.cache = Append(@, next)]

\* self.is_right_cached = !is_right; self.cache.push_back(next);
FillCache(self, next, is_right) ==
    [self EXCEPT !.is_right_cached = ~is_right, !.cache = Append(@, next)]

\* What one call of SharedSplitState::next did besides changing self.
NoLog == [polls |-> 0, pulled |-> <<>>, evaluated |-> <<>>, answers |-> <<>>,
          absent |-> FALSE, hit |-> FALSE, panic |-> FALSE]

\* The item in flight pushed into the cache before the predicate is called.
UnwindCached(self, next, is_right) ==
    [self EXCEPT !.is_right_cached = ~is_right, !.cache = Append(@, next)]

\* The predicate panicked on `next`: unwinding drops the local `next` and
\* leaves self as the loop had it.
Unwind(self, next, is_right) == self

\* One turn of `while let Some(next) = self.iter.next() { ... }`: `again`
\* says whether the loop goes round once more.
Turn(self, is_right, log) ==
    LET r == IterNext(self.iter)
        s1 == [self EXCEPT !.iter = r.iter]
    IN  IF r.item = None
        THEN [self |-> s1, ret |-> None, again |-> FALSE,
              log |-> [log EXCEPT !.polls = @ + 1, !.absent = TRUE]]
        ELSE LET next == r.item[1]
                 l2 == [log EXCEPT !.polls = @ + 1,
                                   !.pulled = Append(@, next),
                                   !.evaluated = Append(@, next)]
                 s2 == [s1 EXCEPT !.predicate = Invoked(@, next)]
                 l3 == [l2 EXCEPT !.answers = Append(@, self.predicate.answer[next])]
             IN  IF Panics(self.predicate, next)
                 THEN [self |-> Unwind(s1, next, is_right), ret |-> None, again |-> FALSE,
                       log |-> [l2 EXCEPT !.panic = TRUE]]
                 ELSE IF Matches(self.predicate, next, is_right)
                 THEN [self |-> s2, ret |-> Some(next), again |-> FALSE, log |-> l3]
                 ELSE [self |-> FillCache(s2, next, is_right), ret |-> None,
                       again |-> TRUE, log |-> l3]

\* An `if let` in place of the `while let`: one turn only.
ScanOnce(self, is_right, log) ==
    LET t == Turn(self, is_right, log)
    IN  [self |-> t.self, ret |-> t.ret, log |-> t.log]

\* while let Some(next) = self.iter.next() { ... } None
RECURSIVE Scan(_, _, _)
Scan(self, is_right, log) ==
    CHOOSE res \in {IF t.again
                    THEN Scan(t.self, is_right, t.log)
                    ELSE [self |-> t.self, ret |-> t.ret, log |-> t.log] :
                    t \in {Turn(self, is_right, log)}} : TRUE

\* The log of a and then b.
Merge(a, b) ==
    [polls |-> a.polls + b.polls, pulled |-> a.pulled \o b.pulled,
     evaluated |-> a.evaluated \o b.evaluated, answers |-> a.answers \o b.answers,
     absent |-> a.absent \/ b.absent, hit |-> a.hit \/ b.hit, panic |-> a.panic \/ b.panic]

\* if is_right == self.is_right_cached { if let Some(next) = pop_front() { return } }
\* `again` says whether the call goes on to the inner iterator.
CacheLookup(self, is_right) ==
    LET p == PopFront(self.cache)
    IN  IF UseCache(is_right, self.is_right_cached) /\ p.item # None
        THEN [self |-> [self EXCEPT !.cache = p.cache], ret |-> p.item, again |-> FALSE,
              log |-> [NoLog EXCEPT !.hit = TRUE]]
        ELSE [self |-> self, ret |-> None, again |-> TRUE, log |-> NoLog]

\* A cache hit that asks the predicate again about the cached item.
SharedNextRecheck(self, is_right) ==
    LET p == PopFront(self.cache)
    IN  IF UseCache(is_right, self.is_right_cached) /\ p.item # None
        THEN [self |-> [self EXCEPT !.cache = p.cache,
                                    !.predicate = Invoked(@, p.item[1])],
              ret |-> p.item,
              log |-> [NoLog EXCEPT !.hit = TRUE, !.evaluated = p.item,
                                    !.answers = <<self.predicate.answer[p.item[1]]>>]]
        ELSE Scan(self, is_right, NoLog)

\* A cache hit path that returns whatever pop_front gives, None included.
SharedNextEarlyNone(self, is_right) ==
    LET p == PopFront(self.cache)
    IN  IF UseCache(is_right, self.is_right_cached)
        THEN [self |-> [self EXCEPT !.cache = p.cache], ret |-> p.item,
              log |-> [NoLog EXCEPT !.hit = TRUE]]
        ELSE Scan(self, is_right, NoLog)

\* SharedSplitState::next
SharedNext(self, is_right) ==
    LET c == CacheLookup(self, is_right)
    IN  IF c.again
        THEN Scan(c.self, is_right, c.log)
        ELSE [self |-> c.self, ret |-> c.ret, log |-> c.log]

\* RefCell::borrow_mut succeeds when the cell is not borrowed; when it is,
\* it panics (BorrowMutError).
BorrowMutUnchecked(is_borrowed) == TRUE

BorrowMut(is_borrowed) == ~is_borrowed

\* The temporary RefMut is dropped at the end of the statement, also when
\* the statement unwinds.
Release(is_borrowed, panic) == FALSE

----------------------------------------------------------------------------
(* Splittable::split and Split::next *)

\* Before split is called there are no handles and no shared state; the
\* variable then holds this empty state, which no action reads.
Unsplit == [iter |-> <<>>, predicate |-> Closure([x \in Items |-> FALSE], FALSE, {}),
            cache |-> <<>>, is_right_cached |-> FALSE]

Init ==
    /\ handles = {}
    /\ shared = Unsplit
    /\ source = <<>>
    /\ predicate0 = Unsplit.predicate
    /\ out = [side \in BOOLEAN |-> <<>>]
    /\ called = [side \in BOOLEAN |-> FALSE]
    /\ done = [side \in BOOLEAN |-> FALSE]
    /\ exhausted = FALSE
    /\ pulled = <<>>
    /\ evaluated = <<>>
    /\ answers = <<>>
    /\ last = [side |-> Left, ret |-> None, polls |-> 0, evals |-> 0, hit |-> FALSE,
               panic |-> FALSE, reentrant |-> FALSE, borrow_error |-> FALSE,
               repeat |-> FALSE]
    /\ borrowed = FALSE
    /\ frame = <<>>
    /\ twin = [self |-> Unsplit, ret |-> None]

\* Splittable::split: one shared state and the two handles over it.
Split(iter, predicate) ==
    [shared |-> New(iter, predicate), handles |-> {Left, Right}]

\* A call of split on an iterator that yields a sequence s of at most n
\* items, with a predicate of P.
SplitOf(P, n) ==
    /\ handles = {}
    /\ \E s \in SeqUpTo(Items, n), p \in P :
        /\ shared' = Split(s, p).shared
        /\ handles' = Split(s, p).handles
        /\ source' = s
        /\ predicate0' = p
        /\ twin' = [self |-> NewRightCached(s, p), ret |-> None]
    /\ UNCHANGED <<out, called, done, exhausted, pulled, evaluated, answers, last,
                   borrowed, frame>>

SplitWith(P) == SplitOf(P, MaxLen)

\* split with a predicate that is a pure function of the item.
DoSplit == SplitWith(StatelessPredicates)

\* The same on the shorter sources of the step-by-step specification.
DoSplitShort == SplitOf(StatelessPredicates, MaxLenSteps)

\* split with a predicate that may keep state between its calls.
DoSplitStateful == SplitWith(StatefulPredicates)

\* What the inner iterator and the predicate were seen to do, per `log`.
Observed(log) ==
    /\ exhausted' = (exhausted \/ log.absent)
    /\ pulled' = pulled \o log.pulled
    /\ evaluated' = evaluated \o log.evaluated
    /\ answers' = answers \o log.answers

\* The call on handle `is_right` ends: it returns `ret`, or unwinds when
\* log.panic.
Answered(is_right, ret, log, reentrant) ==
    /\ out' = [out EXCEPT ![is_right] = @ \o ret]
    /\ called' = [called EXCEPT ![is_right] = TRUE]
    /\ done' = [done EXCEPT ![is_right] = @ \/ (ret = None /\ ~log.panic)]
    /\ last' = [side |-> is_right, ret |-> ret, polls |-> log.polls,
                evals |-> Len(log.evaluated), hit |-> log.hit, panic |-> log.panic,
                reentrant |-> reentrant, borrow_error |-> FALSE,
                repeat |-> done[is_right]]

\* The call on handle `is_right` panics in borrow_mut.
BorrowFailed(is_right, reentrant) ==
    /\ called' = [called EXCEPT ![is_right] = TRUE]
    /\ last' = [side |-> is_right, ret |-> None, polls |-> 0, evals |-> 0,
                hit |-> FALSE, panic |-> TRUE,
                reentrant |-> reentrant, borrow_error |-> TRUE,
                repeat |-> done[is_right]]
    /\ UNCHANGED <<shared, out, done, exhausted, pulled, evaluated, answers>>

\* Split::next on the handle whose is_right is `is_right`:
\* self.shared.borrow_mut().next(self.is_right), start to end.
SplitNext(is_right) ==
    /\ is_right \in handles
    /\ frame = <<>>
    /\ IF BorrowMut(borrowed)
       THEN \E r \in {SharedNext(shared, is_right)} :
                /\ shared' = r.self
                /\ Observed(r.log)
                /\ Answered(is_right, r.ret, r.log, FALSE)
                /\ borrowed' = Release(TRUE, r.log.panic)
                /\ \E r2 \in {SharedNext(twin.self, is_right)} :
                        twin' = [self |-> r2.self, ret |-> r2.ret]
       ELSE /\ BorrowFailed(is_right, FALSE)
            /\ UNCHANGED <<borrowed, twin>>
    /\ UNCHANGED <<handles, source, predicate0, frame>>

LeftNext == SplitNext(Left)

RightNext == SplitNext(Right)

Next == DoSplit \/ LeftNext \/ RightNext

Spec == Init /\ [][Next]_vars

\* split with a predicate that panics on one of the items.
DoSplitPanicking == SplitWith(PanickingPredicates)

\* The same handles over a predicate that panics on some item.
PanicNext == DoSplitPanicking \/ LeftNext \/ RightNext

SpecPanic == Init /\ [][PanicNext]_vars

\* The same handles over a predicate that may keep state.
StatefulNext == DoSplitStateful \/ LeftNext \/ RightNext

SpecStateful == Init /\ [][StatefulNext]_vars

----------------------------------------------------------------------------
(* Split::next step by step: the borrow, the cache lookup, the loop turn by  *)
(* turn. While the loop runs, the inner iterator or the predicate may itself *)
(* call next() on a handle.                                                  *)

\* self.shared.borrow_mut(), and SharedSplitState::next is entered.
Enter(is_right) ==
    /\ is_right \in handles
    /\ frame = <<>>
    /\ BorrowMut(borrowed)
    /\ borrowed' = TRUE
    /\ frame' = <<[side |-> is_right, pre |-> shared, log |-> NoLog, looping |-> FALSE]>>
    /\ UNCHANGED <<handles, shared, source, predicate0, out, called, done, exhausted,
                   pulled, evaluated, answers, last, twin>>

\* The call in progress returns or unwinds, and its RefMut is dropped.
Leave(is_right, ret, log) ==
    /\ Answered(is_right, ret, log, FALSE)
    /\ borrowed' = Release(borrowed, log.panic)
    /\ frame' = <<>>

\* The cache lookup of the call in progress.
CheckCache ==
    /\ frame # <<>>
    /\ ~frame[1].looping
    /\ \E c \in {CacheLookup(shared, frame[1].side)} :
        /\ shared' = c.self
        /\ IF c.again
           THEN /\ frame' = <<[frame[1] EXCEPT !.looping = TRUE]>>
                /\ UNCHANGED <<out, called, done, last, borrowed>>
           ELSE Leave(frame[1].side, c.ret, c.log)
    /\ UNCHANGED <<handles, source, predicate0, exhausted, pulled, evaluated, answers, twin>>

\* One turn of the loop of the call in progress.
LoopTurn ==
    /\ frame # <<>>
    /\ frame[1].looping
    /\ \E t \in {Turn(shared, frame[1].side, NoLog)} :
        /\ shared' = t.self
        /\ Observed(t.log)
        /\ IF t.again
           THEN /\ frame' = <<[frame[1] EXCEPT !.log = Merge(@, t.log)]>>
                /\ UNCHANGED <<out, called, done, last, borrowed>>
           ELSE Leave(frame[1].side, t.ret, Merge(frame[1].log, t.log))
    /\ UNCHANGED <<handles, source, predicate0, twin>>

\* While the loop of a call runs, the inner iterator or the predicate calls
\* next() on handle `is_right`. If borrow_mut lets it in, the nested call runs
\* on the state the outer call has reached; if borrow_mut panics, the panic
\* unwinds through the outer call.
Reenter(is_right) ==
    /\ frame # <<>>
    /\ frame[1].looping
    /\ is_right \in handles
    /\ IF BorrowMut(borrowed)
       THEN \E r \in {SharedNext(shared, is_right)} :
                /\ shared' = r.self
                /\ Observed(r.log)
                /\ Answered(is_right, r.ret, r.log, TRUE)
                /\ UNCHANGED <<borrowed, frame>>
       ELSE /\ BorrowFailed(is_right, TRUE)
            /\ borrowed' = Release(borrowed, TRUE)
            /\ frame' = <<>>
    /\ UNCHANGED <<handles, source, predicate0, twin>>

EnterLeft == Enter(Left)

EnterRight == Enter(Right)

ReenterLeft == Reenter(Left)

ReenterRight == Reenter(Right)

StepNext ==
    \/ DoSplitShort
    \/ EnterLeft
    \/ EnterRight
    \/ CheckCache
    \/ LoopTurn
    \/ ReenterLeft
    \/ ReenterRight

SpecSteps == Init /\ [][StepNext]_vars

----------------------------------------------------------------------------
(* One handle drained alone: the other handle is never asked for an item. *)

DrainLeft == ~called[Right] /\ LeftNext

DrainRight == ~called[Left] /\ RightNext

OneSideNext == DoSplit \/ DrainLeft \/ DrainRight

\* A consumer that keeps calling next() on its handle until it returns None.
FairOneSide == Init /\ [][OneSideNext]_vars /\ WF_vars(DrainLeft \/ DrainRight)

----------------------------------------------------------------------------
(* Vocabulary of the properties *)

\* The items of s whose predicate value is `side`, in the order of s.
Part(s, side) == SelectSeq(s, LAMBDA x : shared.predicate.answer[x] = side)

SeqToBag(s) == [x \in {s[i] : i \in DOMAIN s} |-> Cardinality({i \in DOMAIN s : s[i] = x})]

BothDone == done[Left] /\ done[Right]

Min(S) == CHOOSE m \in S : \A n \in S : m <= n

IsPrefix(s, t) == Len(s) <= Len(t) /\ SubSeq(t, 1, Len(s)) = s

\* What predicate p returns, call by call, when it is called once on each
\* item of s in the order of s.
RECURSIVE InOrder(_, _)
InOrder(p, s) ==
    IF s = <<>> THEN <<>>
    ELSE <<p.answer[Head(s)]>> \o InOrder(Invoked(p, Head(s)), Tail(s))

\* The items of s that the answers a (one per item) send to `side`.
RECURSIVE Assigned(_, _, _)
Assigned(s, a, side) ==
    IF s = <<>> THEN <<>>
    ELSE (IF Head(a) = side THEN <<Head(s)>> ELSE <<>>) \o Assigned(Tail(s), Tail(a), side)

----------------------------------------------------------------------------
(* Properties *)

\* C1: once both handles have returned None, the left handle has returned
\* exactly the items of the source whose predicate is false, in source order,
\* and the right handle exactly those whose predicate is true, in source
\* order, whatever the interleaving of the calls was.
C1_PartitionInOrder ==
    BothDone => /\ out[Left] = Part(source, Left)
                /\ out[Right] = Part(source, Right)

C1_Witness ==
    /\ BothDone
    /\ Len(out[Left]) >= 2
    /\ Len(out[Right]) >= 1
    /\ out[Left][1] # out[Left][2]

\* C2: once both handles have returned None, the items returned by the two
\* handles together are, as a multiset, exactly the items of the source:
\* nothing is returned twice or by both handles, and nothing is dropped.
C2_NoDuplicationNoLoss ==
    BothDone => SeqToBag(out[Left]) (+) SeqToBag(out[Right]) = SeqToBag(source)

C2_Witness ==
    /\ BothDone
    /\ out[Left] # <<>>
    /\ out[Right] # <<>>
    /\ \E i, j \in DOMAIN source : i # j /\ source[i] = source[j]

\* C3: the inner iterator yields each element of the source exactly once:
\* what it has yielded followed by what it still holds is always the source,
\* all of it has been yielded once both handles have returned None, and a
\* call that finds an item for its side in the cache returns the cached item
\* and pulls nothing.
C3_PulledExactlyOnce ==
    /\ [](pulled \o shared.iter = source)
    /\ [](BothDone => pulled = source)
    /\ [][(shared.cache # <<>> /\ last'.side = shared.is_right_cached)
            => /\ last'.ret = Some(Head(shared.cache))
               /\ pulled' = pulled
               /\ shared'.iter = shared.iter]_vars

C3_Witness ==
    /\ last.hit
    /\ shared.cache # <<>>
    /\ Len(pulled) >= 3
    /\ pulled = source

\* C4: split pulls nothing and evaluates nothing: as long as neither handle
\* has been asked for an item, the inner iterator still holds the whole
\* source, the cache is empty and the predicate has not been invoked.
C4_SplitIsLazy ==
    (handles # {} /\ ~called[Left] /\ ~called[Right])
        => /\ shared.iter = source
           /\ shared.cache = <<>>
           /\ pulled = <<>>
           /\ evaluated = <<>>

C4_Witness ==
    /\ handles = {Left, Right}
    /\ ~called[Left]
    /\ ~called[Right]
    /\ Len(source) >= 2
    /\ shared.iter = source

\* C5: after split, a handle drained alone terminates: every call makes at
\* most one pull per source element plus the pull that finds the end, the
\* handle eventually returns None, and when it does it has returned exactly
\* its part of the source in order while the cache holds the whole other part.
C5_OneSideTerminates ==
    /\ (handles # {}) ~> (done[Left] \/ done[Right])
    /\ [](last.polls <= Len(source) + 1)
    /\ [](\A side \in BOOLEAN :
            (done[side] /\ ~called[~side])
                => /\ out[side] = Part(source, side)
                   /\ shared.cache = Part(source, ~side)
                   /\ shared.iter = <<>>)

C5_Witness ==
    /\ done[Right]
    /\ ~called[Left]
    /\ Len(out[Right]) >= 1
    /\ Len(shared.cache) >= 2

\* C6 as stated: once some handle has returned None, every later call on
\* either handle returns None.
C6_NoneIsTerminalForBoth ==
    [][(done[Left] \/ done[Right]) => last'.ret = None]_vars

\* C6 amended: once a handle has returned None, every later call on that
\* handle returns None, and a later call on the other handle returns the
\* front item of the cache while the cache is not empty and None once it is.
C6_NoneIsTerminalPerHandle ==
    [][\A side \in BOOLEAN :
        done[side] =>
            /\ last'.side = side => last'.ret = None
            /\ last'.side # side =>
                 IF shared.cache # <<>>
                 THEN last'.ret = Some(Head(shared.cache))
                 ELSE last'.ret = None]_vars

C6_Witness ==
    /\ done[Right]
    /\ ~done[Left]
    /\ last.side = Left
    /\ last.ret # None
    /\ last.hit

\* C7 as stated: once the inner iterator has returned None, no later call on
\* either handle invokes the inner iterator again.
C7_NoPullAfterExhaustion ==
    [][exhausted => last'.polls = 0]_vars

\* C8: every item in the cache has the predicate value named by
\* is_right_cached, and is_right_cached does not change while the cache is
\* not empty.
C8_CacheHoldsOneSide ==
    /\ [](\A i \in DOMAIN shared.cache :
            shared.predicate.answer[shared.cache[i]] = shared.is_right_cached)
    /\ [][shared.cache # <<>> => shared'.is_right_cached = shared.is_right_cached]_vars

C8_Witness ==
    /\ Len(shared.cache) >= 2
    /\ shared.is_right_cached
    /\ out[Left] # <<>>
    /\ out[Right] # <<>>

\* C9: a call for the side the cache is for, with the cache not empty,
\* returns the front of the cache and removes only it: the rest of the cache
\* keeps its order, the inner iterator and is_right_cached are unchanged, and
\* neither the iterator nor the predicate is invoked.
C9_CacheHit ==
    [][(shared.cache # <<>> /\ last'.side = shared.is_right_cached)
        => /\ last'.ret = Some(shared.cache[1])
           /\ shared'.cache = SubSeq(shared.cache, 2, Len(shared.cache))
           /\ shared'.iter = shared.iter
           /\ shared'.is_right_cached = shared.is_right_cached
           /\ shared'.predicate = shared.predicate
           /\ last'.polls = 0
           /\ last'.evals = 0
           /\ evaluated' = evaluated
           /\ pulled' = pulled]_vars

C9_Witness ==
    /\ last.hit
    /\ Len(shared.cache) >= 2
    /\ shared.cache[1] # shared.cache[2]

\* C10: a call that does not hit the cache advances the inner iterator up to
\* and including the first remaining item of its side, returns that item,
\* appends the items it skipped to the back of the cache in order and, having
\* skipped any, sets is_right_cached to the other side (with nothing skipped
\* the marker is left alone); with no item of its side remaining it consumes
\* the iterator to its end, caches all of it and returns None.
C10_CacheMiss ==
    [][\A side \in BOOLEAN :
        (side \in handles /\ last'.side = side
            /\ ~(shared.cache # <<>> /\ side = shared.is_right_cached))
        => LET rest == shared.iter
               mine == {i \in DOMAIN rest : shared.predicate.answer[rest[i]] = side}
               k == IF mine = {} THEN Len(rest) + 1 ELSE Min(mine)
           IN  /\ last'.ret = IF mine = {} THEN None ELSE Some(rest[k])
               /\ shared'.iter = SubSeq(rest, k + 1, Len(rest))
               /\ shared'.cache = shared.cache \o SubSeq(rest, 1, k - 1)
               /\ \A i \in DOMAIN shared.cache : shared'.cache[i] = shared.cache[i]
               /\ shared'.is_right_cached = IF k > 1 THEN ~side ELSE shared.is_right_cached
               /\ last'.polls = IF mine = {} THEN Len(rest) + 1 ELSE k
               /\ ~last'.hit]_vars

C10_Witness ==
    /\ called[last.side]
    /\ ~last.hit
    /\ last.ret # None
    /\ last.polls >= 2
    /\ Len(shared.cache) > last.polls - 1

\* C11: between calls the cache holds, in source order, exactly the pulled
\* items that no handle has returned yet: for the side the cache is for, the
\* pulled items of that side are the returned ones followed by the cache, and
\* every pulled item of the other side has been returned; a step only appends
\* at the back of the cache or removes its front item.
C11_CacheIsPendingFifo ==
    /\ [](\A side \in BOOLEAN :
            Part(pulled, side)
                = out[side] \o (IF side = shared.is_right_cached THEN shared.cache ELSE <<>>))
    /\ [][\/ IsPrefix(shared.cache, shared'.cache)
          \/ (shared.cache # <<>> /\ shared'.cache = Tail(shared.cache))]_vars

C11_Witness ==
    /\ Len(shared.cache) >= 2
    /\ shared.cache[1] # shared.cache[2]
    /\ out[shared.is_right_cached] # <<>>
    /\ out[~shared.is_right_cached] # <<>>
    /\ last.hit

\* C16: in every reachable state, also while the iterator still holds items,
\* what each handle has returned so far is a prefix of its part of the source.
C16_OutputsArePrefixes ==
    \A side \in BOOLEAN : IsPrefix(out[side], Part(source, side))

C16_Witness ==
    /\ shared.iter # <<>>
    /\ shared.cache # <<>>
    /\ out[Left] # <<>>
    /\ out[Right] # <<>>
    /\ ~done[Left]
    /\ ~done[Right]

\* C17: between calls, with a predicate that does not fail, the number of
\* items pulled from the iterator is the number returned by the left handle
\* plus the number returned by the right handle plus the length of the cache.
C17_Conservation ==
    Len(pulled) = Len(out[Left]) + Len(out[Right]) + Len(shared.cache)

C17_Witness ==
    /\ out[Left] # <<>>
    /\ out[Right] # <<>>
    /\ Len(shared.cache) >= 2
    /\ Len(pulled) = Len(source)

\* C12: the predicate is called exactly once on each pulled item, when it is
\* pulled and in source order, and never on an item taken from the cache; so
\* also for a predicate that keeps state between calls the answers are those
\* of one pass over the source in order, and the side each item goes to does
\* not depend on how the calls on the two handles were interleaved.
C12_PredicateOncePerItemInOrder ==
    /\ [](evaluated = pulled /\ IsPrefix(pulled, source))
    /\ [](answers = InOrder(predicate0, pulled))
    /\ [](BothDone => \A side \in BOOLEAN :
            out[side] = Assigned(source, InOrder(predicate0, source), side))
    /\ [][last'.hit => /\ evaluated' = evaluated
                       /\ answers' = answers
                       /\ shared'.predicate = shared.predicate
                       /\ last'.evals = 0]_vars

C12_Witness ==
    /\ predicate0.flips
    /\ BothDone
    /\ Len(evaluated) >= 3
    /\ \E i \in DOMAIN out[Left], j \in DOMAIN out[Right] : out[Left][i] = out[Right][j]
    /\ \E side \in BOOLEAN : Len(out[side]) >= 2 /\ out[side][1] # out[side][2]

\* C13: when the predicate panics on an item x during a call for `side`, the
\* call unwinds to its caller without returning; x is pulled from the iterator
\* but is neither returned nor cached, the items skipped before x are in the
\* cache, the cache still holds only items of the side the marker names, and
\* the borrow of the shared state is released, so that later calls get in.
C13_PredicatePanicLeavesStateConsistent ==
    /\ [](\A i \in DOMAIN shared.cache :
            /\ shared.predicate.answer[shared.cache[i]] = shared.is_right_cached
            /\ shared.cache[i] \notin shared.predicate.panics)
    /\ [](\A side \in BOOLEAN : \A i \in DOMAIN out[side] :
            out[side][i] \notin shared.predicate.panics)
    /\ [](~borrowed /\ ~last.borrow_error)
    /\ [](last.panic => last.ret = None /\ ~last.hit)
    /\ [][\A side \in BOOLEAN :
            LET rest == shared.iter
                stop == {i \in DOMAIN rest :
                            \/ rest[i] \in shared.predicate.panics
                            \/ shared.predicate.answer[rest[i]] = side}
                k == Min(stop)
            IN  (/\ side \in handles /\ last'.side = side /\ last' # last
                 /\ ~(shared.cache # <<>> /\ side = shared.is_right_cached)
                 /\ stop # {}
                 /\ rest[k] \in shared.predicate.panics)
                => /\ last'.panic
                   /\ out' = out
                   /\ done' = done
                   /\ shared'.iter = SubSeq(rest, k + 1, Len(rest))
                   /\ shared'.cache = shared.cache \o SubSeq(rest, 1, k - 1)
                   /\ evaluated' = evaluated \o SubSeq(rest, 1, k)
                   /\ borrowed' = FALSE]_vars

C13_Witness ==
    /\ last.panic
    /\ last.evals >= 2
    /\ shared.cache # <<>>
    /\ out[Left] # <<>>
    /\ out[Right] # <<>>

\* C14: the initial value of is_right_cached is inert: the same calls made on
\* a state whose marker started as true return the same values and leave the
\* same cache and the same iterator after every call; the two markers agree
\* whenever the cache is not empty.
C14_InitialMarkerIsInert ==
    /\ twin.ret = last.ret
    /\ twin.self.cache = shared.cache
    /\ twin.self.iter = shared.iter
    /\ shared.cache # <<>> => twin.self.is_right_cached = shared.is_right_cached

C14_Witness ==
    /\ twin.self.is_right_cached # shared.is_right_cached
    /\ called[Left]
    /\ called[Right]
    /\ out[Left] # <<>>
    /\ out[Right] # <<>>
    /\ shared.iter # <<>>

\* C15: a call of next() is one atomic step on the shared state: the state
\* is mutably borrowed exactly while a call is in progress; a call that runs
\* to its end leaves the state and returns the value that the whole call
\* computes from the state it found when it entered; nothing but the steps of
\* the call in progress changes the state meanwhile; and a next() attempted
\* while a call is in progress fails in borrow_mut without touching the state.
C15_NextIsAtomic ==
    /\ [](borrowed <=> frame # <<>>)
    /\ [](last.reentrant => last.borrow_error /\ last.panic /\ last.ret = None)
    /\ [][(frame # <<>> /\ frame' = <<>> /\ ~last'.reentrant)
            => LET r == SharedNext(frame[1].pre, frame[1].side)
               IN  /\ shared' = r.self
                   /\ last'.ret = r.ret
                   /\ last'.side = frame[1].side]_vars
    /\ [][(frame # <<>> /\ frame' = frame) => shared' = shared]_vars
    /\ [][(frame # <<>> /\ frame' = <<>> /\ last'.reentrant)
            => /\ shared' = shared
               /\ out' = out
               /\ done' = done]_vars

C15_Witness ==
    /\ last.reentrant
    /\ last.borrow_error
    /\ frame = <<>>
    /\ shared.cache # <<>>
    /\ shared.iter # <<>>
    /\ pulled # <<>>

\* C18: with a source that stays exhausted, a handle that has returned None
\* returns None on every later call, whatever was called on the other handle
\* in between; and a handle has returned None only if the iterator is
\* exhausted and the cache holds no item of that handle's side.
C18_NoneIsStickyPerHandle ==
    /\ last.repeat => last.ret = None
    /\ \A side \in BOOLEAN :
        done[side] => /\ shared.iter = <<>>
                      /\ exhausted
                      /\ (shared.cache = <<>> \/ shared.is_right_cached # side)

C18_Witness ==
    /\ last.repeat
    /\ last.side = Left
    /\ last.ret = None
    /\ ~done[Right]
    /\ out[Right] # <<>>
    /\ shared.cache # <<>>

====
